---- MODULE Spec2Model ----
(***************************************************************************)
(* Model of the CallServer Insight aggregation engine:                     *)
(*   src/services/excelParser.ts  parseExcelFiles, calculateAggregates     *)
(*   src/App.tsx                  processFiles, handleGenerateReport       *)
(*                                                                         *)
(* Strings are sequences of one-character strings, so that trim,           *)
(* toUpperCase, includes and localeCompare are computed, not assumed.      *)
(* A spreadsheet cell is a tagged value (number, string or undefined).     *)
(* A JavaScript number that is a ratio of two integers (the utilization    *)
(* percentages) is kept as the exact fraction [num, den].                  *)
(***************************************************************************)
EXTENDS Integers, Sequences, FiniteSets, TLC

\* ---------------------------------------------------------------- bounds
\* at most MaxFiles files in one uploaded batch
MaxFiles == 2
\* at most MaxRows decoded rows in one batch, over all its files
MaxRows == 3
\* at most MaxPeriods comparison periods
MaxPeriods == 3
\* at most MaxUploads files held by the App, over rawFiles and all periods
MaxUploads == 2

\* --------------------------------------------------------------- strings
Range(seq) == {seq[k] : k \in 1..Len(seq)}

Min(S) == CHOOSE x \in S : \A y \in S : x <= y
Max(S) == CHOOSE x \in S : \A y \in S : x >= y

\* String.prototype.toUpperCase, one character
ToUpperChar(c) ==
  CASE c = "a" -> "A"
    [] c = "b" -> "B"
    [] c = "d" -> "D"
    [] c = "l" -> "L"
    [] c = "o" -> "O"
    [] c = "t" -> "T"
    [] OTHER -> c

toUpperCase(s) == [i \in 1..Len(s) |-> ToUpperChar(s[i])]

\* String.prototype.includes for a non-empty needle
includes(s, sub) ==
  \E k \in 0..(Len(s) - Len(sub)) :
    \A j \in 1..Len(sub) : s[k + j] = sub[j]

\* String.prototype.trim: strips the surrounding white space
trim(s) ==
  LET keep == {i \in 1..Len(s) : s[i] # " "}
  IN  IF keep = {} THEN <<>> ELSE SubSeq(s, Min(keep), Max(keep))

\* collation rank of a character: white space first, then the letters in
\* alphabetical order with the lower case letter before its capital. U+00C5
\* (A with ring) and U+212B (the angstrom sign) are canonically equivalent:
\* they are different strings that the collation does not tell apart
CharRank(c) ==
  CASE c = " " -> 0
    [] c = "a" -> 1
    [] c = "A" -> 2
    [] c = "U+00C5" -> 3
    [] c = "U+212B" -> 3
    [] c = "b" -> 4
    [] c = "B" -> 5
    [] c = "d" -> 6
    [] c = "D" -> 7
    [] c = "l" -> 8
    [] c = "L" -> 9
    [] c = "o" -> 10
    [] c = "O" -> 11
    [] c = "t" -> 12
    [] c = "T" -> 13
    [] OTHER -> 14

\* String.prototype.localeCompare: negative, zero or positive
RECURSIVE localeCompare(_, _)
localeCompare(s, t) ==
  IF s = <<>> /\ t = <<>> THEN 0
  ELSE IF s = <<>> THEN -1
  ELSE IF t = <<>> THEN 1
  ELSE IF CharRank(Head(s)) < CharRank(Head(t)) THEN -1
  ELSE IF CharRank(Head(s)) > CharRank(Head(t)) THEN 1
  ELSE localeCompare(Tail(s), Tail(t))

TOTAL == <<"T", "O", "T", "A", "L">>

\* ----------------------------------------------------------------- cells
Num(n)    == [kind |-> "number", n |-> n, s |-> <<>>]
Str(s)    == [kind |-> "string", n |-> 0, s |-> s]
Undefined == [kind |-> "undefined", n |-> 0, s |-> <<>>]

\* Number(v): a number is itself, the empty or blank string is 0, every other
\* string of the model is not numeric, undefined is NaN
Number(v) ==
  CASE v.kind = "number" -> [nan |-> FALSE, n |-> v.n]
    [] v.kind = "string" /\ trim(v.s) = <<>> -> [nan |-> FALSE, n |-> 0]
    [] OTHER -> [nan |-> TRUE, n |-> 0]

\* x || 1 in place of x || 0: a falsy value becomes 1
OrOne(x) == IF x.nan \/ x.n = 0 THEN 1 ELSE x.n

\* x || 0 on a number: NaN and 0 are falsy
OrZero(x) == IF x.nan \/ x.n = 0 THEN 0 ELSE x.n

\* String(v || '') for a string or a missing cell
StringOrEmpty(v) == IF v.kind = "string" THEN v.s ELSE <<>>

\* ------------------------------------------------- parseExcelFiles, a row
\* the ServerRecord built from a row at excelParser.ts:34-55
RecordOf(row) ==
  [date     |-> StringOrEmpty(row.DATE),
   serverIp |-> StringOrEmpty(row.SERVER),
   idle     |-> OrZero(Number(row.IDLE)),
   busy     |-> OrZero(Number(row.BUSY)),
   fault    |-> OrZero(Number(row.FAULT)),
   total    |-> OrZero(Number(row.TOTAL))]

\* `if (!serverVal && !dateVal) return;`
isBlankRow(row) ==
  StringOrEmpty(row.SERVER) = <<>> /\ StringOrEmpty(row.DATE) = <<>>

isTotalRow(row) ==
  \/ includes(toUpperCase(StringOrEmpty(row.SERVER)), TOTAL)
  \/ includes(toUpperCase(StringOrEmpty(row.DATE)), TOTAL)

\* forEachRow with `fileTotalRow = fileTotalRow || record`: the first total
\* row of a file is kept
forEachRowFirstTotal(acc, row) ==
  IF isBlankRow(row) THEN acc
  ELSE IF isTotalRow(row)
       THEN (IF acc.fileTotalRow = <<>>
             THEN [acc EXCEPT !.fileTotalRow = <<RecordOf(row)>>]
             ELSE acc)
  ELSE IF StringOrEmpty(row.SERVER) # <<>>
       THEN [acc EXCEPT !.records = Append(@, RecordOf(row))]
  ELSE acc

\* forEachRow with a bare else: every row that is not a total row is pushed
forEachRowPushAll(acc, row) ==
  IF isBlankRow(row) THEN acc
  ELSE IF isTotalRow(row)
       THEN [acc EXCEPT !.fileTotalRow = <<RecordOf(row)>>]
  ELSE [acc EXCEPT !.records = Append(@, RecordOf(row))]

\* forEachRow with `else if (serverVal && total > 0)`: a server row without
\* calls is dropped
forEachRowSkipZero(acc, row) ==
  IF isBlankRow(row) THEN acc
  ELSE IF isTotalRow(row)
       THEN [acc EXCEPT !.fileTotalRow = <<RecordOf(row)>>]
  ELSE IF StringOrEmpty(row.SERVER) # <<>> /\ RecordOf(row).total > 0
       THEN [acc EXCEPT !.records = Append(@, RecordOf(row))]
  ELSE acc

\* the body of rawData.forEach: acc is [records, fileTotalRow], where
\* fileTotalRow is <<>> for null and <<record>> otherwise
forEachRow(acc, row) ==
  IF isBlankRow(row) THEN acc
  ELSE IF isTotalRow(row)
       THEN [acc EXCEPT !.fileTotalRow = <<RecordOf(row)>>]
  ELSE IF StringOrEmpty(row.SERVER) # <<>>
       THEN [acc EXCEPT !.records = Append(@, RecordOf(row))]
  ELSE acc

RECURSIVE forEachRows(_, _)
forEachRows(acc, rows) ==
  IF rows = <<>> THEN acc
  ELSE forEachRows(forEachRow(acc, Head(rows)), Tail(rows))

\* the ProcessedFile pushed for a file that decodes
ProcessedFileOf(file) ==
  LET acc == forEachRows([records |-> <<>>, fileTotalRow |-> <<>>], file.rows)
  IN  [fileName     |-> file.name,
       records      |-> acc.records,
       fileTotalRow |-> acc.fileTotalRow]

\* ---------------------------------------------------- calculateAggregates
\* Math.floor(s / n) in place of Math.round
MathFloorDiv(s, n) == s \div n

\* Math.round(s / n) for integers s and n > 0: halves go up
MathRoundDiv(s, n) == (2 * s + n) \div (2 * n)

\* the fraction without the guard against a zero total
UtilizationUnguarded(part, calls) == [num |-> part * 100, den |-> calls]

\* the fraction num / den * 100 guarded by `grandTotalCalls > 0`
Utilization(part, calls) ==
  IF calls > 0 THEN [num |-> part * 100, den |-> calls]
  ELSE [num |-> 0, den |-> 1]

\* the records of every file followed by its fileTotalRow
RECURSIVE AllRecordsAndTotals(_)
AllRecordsAndTotals(files) ==
  IF files = <<>> THEN <<>>
  ELSE Head(files).records \o Head(files).fileTotalRow
         \o AllRecordsAndTotals(Tail(files))

\* every record of every file, in forEach order
RECURSIVE AllRecords(_)
AllRecords(files) ==
  IF files = <<>> THEN <<>>
  ELSE Head(files).records \o AllRecords(Tail(files))

IndexOfIp(m, ip) ==
  LET hit == {k \in 1..Len(m) : m[k].serverIp = ip}
  IN  IF hit = {} THEN 0 ELSE Min(hit)

\* serverSums keyed by record.serverIp as it is, without trim()
serverSumsSetUntrimmed(m, record) ==
  LET ip == record.serverIp
      k  == IndexOfIp(m, ip)
      current == IF k = 0 THEN [idle |-> 0, busy |-> 0, fault |-> 0, total |-> 0]
                 ELSE m[k]
      entry == [serverIp |-> ip,
                idle  |-> current.idle + record.idle,
                busy  |-> current.busy + record.busy,
                fault |-> current.fault + record.fault,
                total |-> current.total + record.total]
  IN  IF ip = <<>> THEN m
      ELSE IF k = 0 THEN Append(m, entry)
      ELSE [m EXCEPT ![k] = entry]

\* serverSums after one record: a Map keeps its keys in insertion order, so
\* it is a sequence of entries; set() on a present key keeps its place
serverSumsSet(m, record) ==
  LET ip == trim(record.serverIp)
      k  == IndexOfIp(m, ip)
      current == IF k = 0 THEN [idle |-> 0, busy |-> 0, fault |-> 0, total |-> 0]
                 ELSE m[k]
      entry == [serverIp |-> ip,
                idle  |-> current.idle + record.idle,
                busy  |-> current.busy + record.busy,
                fault |-> current.fault + record.fault,
                total |-> current.total + record.total]
  IN  IF ip = <<>> THEN m
      ELSE IF k = 0 THEN Append(m, entry)
      ELSE [m EXCEPT ![k] = entry]

RECURSIVE serverSumsOf(_, _)
serverSumsOf(m, records) ==
  IF records = <<>> THEN m
  ELSE serverSumsOf(serverSumsSet(m, Head(records)), Tail(records))

\* the total averaged from the source TOTAL column instead of recomputed
avgTotalAveraged(avgIdle, avgBusy, avgFault, sums, fileCount) ==
  (2 * sums.total + fileCount) \div (2 * fileCount)

\* the total taken from the summed source TOTAL column
avgTotalSummed(avgIdle, avgBusy, avgFault, sums, fileCount) == sums.total

\* the recomputed total of an averaged row
avgTotalOf(avgIdle, avgBusy, avgFault, sums, fileCount) ==
  avgIdle + avgBusy + avgFault

\* the row pushed to serverBreakdown for one entry of serverSums
BreakdownRow(sums, fileCount) ==
  LET avgIdle  == MathRoundDiv(sums.idle, fileCount)
      avgBusy  == MathRoundDiv(sums.busy, fileCount)
      avgFault == MathRoundDiv(sums.fault, fileCount)
  IN  [serverIp |-> sums.serverIp,
       date     |-> <<>>,
       idle     |-> avgIdle,
       busy     |-> avgBusy,
       fault    |-> avgFault,
       total    |-> avgTotalOf(avgIdle, avgBusy, avgFault, sums, fileCount)]

\* Array.prototype.sort with (a, b) => a.serverIp.localeCompare(b.serverIp):
\* a stable insertion sort
RECURSIVE InsertSorted(_, _)
InsertSorted(sorted, r) ==
  IF sorted = <<>> THEN <<r>>
  ELSE IF localeCompare(r.serverIp, Head(sorted).serverIp) < 0
       THEN <<r>> \o sorted
  ELSE <<Head(sorted)>> \o InsertSorted(Tail(sorted), r)

RECURSIVE SortRows(_, _)
SortRows(sorted, rest) ==
  IF rest = <<>> THEN sorted
  ELSE SortRows(InsertSorted(sorted, Head(rest)), Tail(rest))

\* serverBreakdown left in the insertion order of serverSums
unsortedRows(rows) == rows

sortByServerIp(rows) == SortRows(<<>>, rows)

\* `grandTotal = avg` in place of `grandTotal += avg`: the last row only
SumFieldLast(rows, f) == IF rows = <<>> THEN 0 ELSE rows[Len(rows)][f]

RECURSIVE SumField(_, _)
SumField(rows, f) ==
  IF rows = <<>> THEN 0 ELSE Head(rows)[f] + SumField(Tail(rows), f)

\* a divisor that counts the files that have server records only
fileCountWithRecords(files) ==
  LET n == Cardinality({k \in 1..Len(files) : Len(files[k].records) > 0})
  IN  IF n = 0 THEN 1 ELSE n

\* `files.length || 1`
fileCountOf(files) == IF Len(files) = 0 THEN 1 ELSE Len(files)

calculateAggregates(files) ==
  LET fileCount  == fileCountOf(files)
      serverSums == serverSumsOf(<<>>, AllRecords(files))
      unsorted   == [k \in 1..Len(serverSums) |-> BreakdownRow(serverSums[k], fileCount)]
      grandTotalIdle  == SumField(unsorted, "idle")
      grandTotalBusy  == SumField(unsorted, "busy")
      grandTotalFault == SumField(unsorted, "fault")
      grandTotalCalls == SumField(unsorted, "total")
  IN  [totalIdle  |-> grandTotalIdle,
       totalBusy  |-> grandTotalBusy,
       totalFault |-> grandTotalFault,
       totalCalls |-> grandTotalCalls,
       avgIdle    |-> grandTotalIdle,
       avgBusy    |-> grandTotalBusy,
       avgFault   |-> grandTotalFault,
       utilizationIdle  |-> Utilization(grandTotalIdle, grandTotalCalls),
       utilizationBusy  |-> Utilization(grandTotalBusy, grandTotalCalls),
       utilizationFault |-> Utilization(grandTotalFault, grandTotalCalls),
       serverBreakdown  |-> sortByServerIp(unsorted)]

\* the check without `|| f.fileTotalRow`
hasDataRecordsOnly(processedData) ==
  \E k \in 1..Len(processedData) : Len(processedData[k].records) > 0

\* `processedData.some(f => f.records.length > 0 || f.fileTotalRow)`
hasData(processedData) ==
  \E k \in 1..Len(processedData) :
    Len(processedData[k].records) > 0 \/ processedData[k].fileTotalRow # <<>>

\* ------------------------------------------------------- TrendDashboard
\* parseFloat(u.toFixed(2)) of the percentage u.num / u.den, in hundredths of
\* a percent: the nearest hundredth, a half away from zero (no percentage of
\* the model lies on a half)
ToFixed2(u) ==
  IF u.num >= 0
  THEN (2 * u.num * 100 + u.den) \div (2 * u.den)
  ELSE -((2 * (-u.num) * 100 + u.den) \div (2 * u.den))

\* the chartData entry of a period that carries stats
ChartEntry(p) ==
  [name     |-> <<p.month, p.year>>,
   Idle     |-> p.stats[1].totalIdle,
   Busy     |-> p.stats[1].totalBusy,
   Fault    |-> p.stats[1].totalFault,
   Total    |-> p.stats[1].totalCalls,
   FaultPct |-> ToFixed2(p.stats[1].utilizationFault),
   IdlePct  |-> ToFixed2(p.stats[1].utilizationIdle)]

\* periods.map(p => p.stats ? entry : null).filter(Boolean)
RECURSIVE chartDataOf(_)
chartDataOf(ps) ==
  IF ps = <<>> THEN <<>>
  ELSE IF Head(ps).stats = <<>> THEN chartDataOf(Tail(ps))
  ELSE <<ChartEntry(Head(ps))>> \o chartDataOf(Tail(ps))

\* the stable sort by (b['Fault %'] || 0) - (a['Fault %'] || 0): an entry goes
\* before the first entry with a smaller Fault %
RECURSIVE InsertByFault(_, _)
InsertByFault(sorted, e) ==
  IF sorted = <<>> THEN <<e>>
  ELSE IF Head(sorted).FaultPct < e.FaultPct THEN <<e>> \o sorted
  ELSE <<Head(sorted)>> \o InsertByFault(Tail(sorted), e)

RECURSIVE sortByFaultDesc(_, _)
sortByFaultDesc(sorted, rest) ==
  IF rest = <<>> THEN sorted
  ELSE sortByFaultDesc(InsertByFault(sorted, Head(rest)), Tail(rest))

\* the insight record built from a chartData of at least one entry
InsightOf(cd) ==
  LET first     == cd[1]
      last      == cd[Len(cd)]
      faultDiff == last.FaultPct - first.FaultPct
      peakFault == sortByFaultDesc(<<>>, cd)[1]
  IN  [direction |-> IF faultDiff > 0 THEN "increased" ELSE "decreased",
       diff      |-> IF faultDiff < 0 THEN -faultDiff ELSE faultDiff,
       peakMonth |-> peakFault.name,
       peakValue |-> peakFault.FaultPct]

\* the insights memo with `chartData.length < 1`
insightsOfOne(cd) == IF Len(cd) < 1 THEN <<>> ELSE <<InsightOf(cd)>>

\* the insights memo: null below two chart entries
insightsOf(cd) == IF Len(cd) < 2 THEN <<>> ELSE <<InsightOf(cd)>>

\* --------------------------------------------------- ComparisonDashboard
\* calculateChange without `current === 0 ? 0 :`
calculateChangeNoZero(current, prev) ==
  IF prev = 0 THEN [num |-> 100, den |-> 1]
  ELSE [num |-> (current - prev) * 100, den |-> prev]

\* calculateChange: the fraction num / den
calculateChange(current, prev) ==
  IF prev = 0
  THEN (IF current = 0 THEN [num |-> 0, den |-> 1] ELSE [num |-> 100, den |-> 1])
  ELSE [num |-> (current - prev) * 100, den |-> prev]

\* a MetricCard fed with two counts
MetricCard(label, current, prev) ==
  [label |-> label, isPercentage |-> FALSE, current |-> current, prev |-> prev,
   change |-> calculateChange(current, prev)]

\* a MetricCard fed with two percentages: the change is current - prev
MetricCardPercentage(label, current, prev) ==
  [label |-> label, isPercentage |-> TRUE, current |-> current, prev |-> prev,
   change |-> [num |-> current.num * prev.den - prev.num * current.den,
               den |-> current.den * prev.den]]

\* the four cards of ComparisonDashboard
MetricCardsOf(currentStats, prevStats) ==
  <<MetricCard("Total Idle", currentStats.totalIdle, prevStats.totalIdle),
    MetricCard("Total Busy", currentStats.totalBusy, prevStats.totalBusy),
    MetricCard("Total Fault", currentStats.totalFault, prevStats.totalFault),
    MetricCardPercentage("Fault Utilization", currentStats.utilizationFault,
                         prevStats.utilizationFault)>>

\* ------------------------------------------------------------ the periods
months ==
  <<"January", "February", "March", "April", "May", "June",
    "July", "August", "September", "October", "November", "December">>

\* the ids of the periods in creation order: '1' and '2', then fresh UUIDs
PeriodIds == <<"1", "2", "u1", "u2", "u3", "u4">>

RECURSIVE IndexIn(_, _)
IndexIn(seq, x) == IF Head(seq) = x THEN 1 ELSE 1 + IndexIn(Tail(seq), x)

IndexOfId(id) == IndexIn(PeriodIds, id)

Period(id, month, year, files, st) ==
  [id |-> id, month |-> month, year |-> year, files |-> files, stats |-> st]

\* the two periods of useState and of handleReset: the month of today, last
\* year and this year
InitialPeriods ==
  <<Period("1", months[11], "2025", <<>>, <<>>),
    Period("2", months[11], "2026", <<>>, <<>>)>>

\* ------------------------------------------------------------ the inputs
sEmpty  == <<>>
sSpace  == <<" ">>
sA      == <<"a">>
sAB     == <<"a", "b">>
sB      == <<"b">>
sSpaceA == <<" ", "a">>
sDate   == <<"d">>
sTotalLower == <<"t", "o", "t", "a", "l">>
sATotal == <<"a", " ", "T", "o", "t", "a", "l">>
sARing    == <<"U+00C5">>
sAngstrom == <<"U+212B">>

Row(server, date, idle, busy, fault, total) ==
  [SERVER |-> server, DATE |-> date,
   IDLE |-> idle, BUSY |-> busy, FAULT |-> fault, TOTAL |-> total]

\* a server row with numeric cells
ServerRow(server, idle, busy, fault, total) ==
  Row(Str(server), Str(sDate), Num(idle), Num(busy), Num(fault), Num(total))

\* rows that exercise averaging and rounding
AveragingRows ==
  {ServerRow(sA, 3, 0, 0, 3),
   ServerRow(sA, 1, 1, 0, 5),
   ServerRow(sA, 100, 50, 10, 160),
   ServerRow(sB, 0, 0, 0, 0)}

\* rows with negative and zero counts
SignRows ==
  {ServerRow(sA, -1, 2, 0, 1),
   ServerRow(sB, -3, 0, 1, -2),
   ServerRow(sA, 0, 0, 0, 0),
   ServerRow(sA, 1, 0, 0, 1)}

\* blank and nearly blank rows
BlankRows ==
  {Row(Str(sSpace), Str(sEmpty), Num(1), Num(0), Num(0), Num(1)),
   Row(Undefined, Undefined, Num(1), Num(1), Num(1), Num(3)),
   Row(Str(sEmpty), Str(sDate), Num(2), Num(0), Num(0), Num(2)),
   Row(Str(sEmpty), Str(sSpace), Num(0), Num(0), Num(0), Num(0))}

\* total rows next to a server row
TotalRows ==
  {Row(Str(sATotal), Str(sDate), Num(5), Num(5), Num(5), Num(15)),
   Row(Str(sEmpty), Str(sTotalLower), Num(7), Num(0), Num(0), Num(7)),
   Row(Str(TOTAL), Undefined, Num(9), Num(0), Num(0), Num(9)),
   ServerRow(sA, 1, 0, 0, 1)}

\* several server identifiers, one of them with surrounding white space
KeyRows ==
  {ServerRow(sB, 1, 0, 0, 1),
   ServerRow(sAB, 0, 1, 0, 1),
   ServerRow(sA, 0, 1, 1, 2),
   ServerRow(sSpaceA, 0, 0, 1, 1)}

\* two identifiers that differ as strings and collate as equal, next to others
CollationRows ==
  {ServerRow(sARing, 1, 0, 0, 1),
   ServerRow(sAngstrom, 0, 2, 0, 2),
   ServerRow(sA, 0, 0, 1, 1),
   ServerRow(sB, 1, 1, 0, 2)}

\* cells that are missing or not numeric
CoercionRows ==
  {Row(Str(sA), Str(sDate), Str(sB), Undefined, Num(2), Str(sEmpty)),
   Row(Str(sA), Undefined, Num(1), Str(sSpace), Undefined, Num(1)),
   Row(Str(sB), Str(sDate), Undefined, Undefined, Undefined, Undefined)}

RowFamilies ==
  {AveragingRows, SignRows, BlankRows, TotalRows, KeyRows, CoercionRows,
   CollationRows}

\* the shape of a batch: for each file, -1 when its decoding throws
\* (arrayBuffer, XLSX.read or sheet_to_json), else its number of decoded rows
RowsOfShape(shape, k) == IF shape[k] < 0 THEN 0 ELSE shape[k]

RECURSIVE RowsBefore(_, _)
RowsBefore(shape, k) ==
  IF k <= 1 THEN 0 ELSE RowsBefore(shape, k - 1) + RowsOfShape(shape, k - 1)

\* the shapes of the non-empty batches of at most MaxFiles files with at most
\* MaxRows rows in all
BatchShapes ==
  UNION {{sh \in [1..n -> -1..MaxRows] : RowsBefore(sh, n + 1) <= MaxRows}
           : n \in 1..MaxFiles}

FileName(k) ==
  CASE k = 1 -> "f1.xlsx"
    [] k = 2 -> "f2.xlsx"
    [] k = 3 -> "f3.xlsx"
    [] OTHER -> "f4.xlsx"

\* File objects: a name, whether the file decodes, and its decoded rows; the
\* rows of the batch are dealt to the files in order
FilesOf(shape, rows) ==
  [k \in 1..Len(shape) |->
     [name     |-> FileName(k),
      readable |-> shape[k] >= 0,
      rows     |-> SubSeq(rows, RowsBefore(shape, k) + 1, RowsBefore(shape, k + 1))]]


\* the stats of a period with one file and one server
StatsOf(idle, busy, fault) ==
  calculateAggregates(
    <<[fileName |-> FileName(1),
       records  |-> <<[date |-> sDate, serverIp |-> sA, idle |-> idle,
                       busy |-> busy, fault |-> fault,
                       total |-> idle + busy + fault]>>,
       fileTotalRow |-> <<>>]>>)

\* what a period handed to a dashboard carries: no stats, or stats with a
\* fault utilization of 0, 2, 5, 3, 99.5, 99.5025 and 100 percent
PeriodStats ==
  {<<>>, <<StatsOf(0, 0, 0)>>, <<StatsOf(98, 0, 2)>>, <<StatsOf(95, 0, 5)>>,
   <<StatsOf(97, 0, 3)>>, <<StatsOf(1, 0, 199)>>, <<StatsOf(1, 0, 200)>>,
   <<StatsOf(0, 0, 4)>>}

\* the period sequences handed to a dashboard: the k-th period is labelled
\* with the k-th month
PeriodsOf(sts) ==
  [k \in 1..Len(sts) |-> Period(PeriodIds[k], months[k], "2026", <<>>, sts[k])]

\* -------------------------------------------------------------- the state
VARIABLES
  rawFiles,        \* App.tsx:19  the File[] selected for the single report
  step,            \* App.tsx:13  'upload' | 'processing' | 'report'
  stats,           \* App.tsx:18  <<>> for null, <<AggregatedStats>> otherwise
  error,           \* App.tsx:31  <<>> for null, <<message>> otherwise
  i,               \* excelParser.ts:16  index of the file the loop is at
  processedFiles,  \* excelParser.ts:14  the ProcessedFile[] built so far
  consoleErrors,   \* excelParser.ts:72  the set of file names console.error logged
  mode,            \* App.tsx:14  'single' | 'compare'
  comparisonType,  \* App.tsx:15  'pairwise' | 'trend'
  periods,         \* App.tsx:26  the ComparisonPeriod[]; stats <<>> for null
  settled,         \* App.tsx:79,86  per uploader key, the promise of its processFiles call
  selectedFiles,   \* FileUploader.tsx:11  per mounted FileUploader, its selectedFiles
  dashboard,       \* which dashboard has been rendered: "none" before
  chartData,       \* TrendDashboard.tsx:38  the memoized chartData
  insights,        \* TrendDashboard.tsx:55  <<>> for null, <<insight>> otherwise
  metricCards      \* ComparisonDashboard.tsx:48  the change shown by each MetricCard

pipelineVars == <<rawFiles, step, stats, error, i, processedFiles, consoleErrors>>
appVars      == <<mode, comparisonType, periods, settled, selectedFiles>>
viewVars     == <<dashboard, chartData, insights, metricCards>>
vars         == <<pipelineVars, appVars, viewVars>>

NoDataMessage == "No valid data rows or TOTAL rows found in uploaded files."

Init ==
  /\ \E R \in RowFamilies, shape \in BatchShapes :
       \E rows \in [1..RowsBefore(shape, Len(shape) + 1) -> R] :
         rawFiles = FilesOf(shape, rows)
  /\ step = "upload"
  /\ stats = <<>>
  /\ error = <<>>
  /\ i = 1
  /\ processedFiles = <<>>
  /\ consoleErrors = {}
  /\ mode = "single"
  /\ comparisonType = "pairwise"
  /\ periods = InitialPeriods
  /\ settled = <<>>
  /\ selectedFiles = ("single" :> rawFiles)
  /\ dashboard = "none"
  /\ chartData = <<>>
  /\ insights = <<>>
  /\ metricCards = <<>>

\* parseExcelFiles as a whole: the ProcessedFile of every file that decodes
RECURSIVE parseExcelFiles(_)
parseExcelFiles(files) ==
  IF files = <<>> THEN <<>>
  ELSE (IF Head(files).readable THEN <<ProcessedFileOf(Head(files))>> ELSE <<>>)
         \o parseExcelFiles(Tail(files))

\* the promise of processFiles(files) once settled
processFiles(files) ==
  LET processedData == parseExcelFiles(files) IN
    IF hasData(processedData)
    THEN [state |-> "fulfilled", stats |-> <<calculateAggregates(processedData)>>,
          message |-> <<>>]
    ELSE [state |-> "rejected", stats |-> <<>>, message |-> <<NoDataMessage>>]

\* the promise processFiles(files) returns: pending, and settling as the files
\* it was called with decide
Pending(files) ==
  [state |-> "pending", stats |-> <<>>, message |-> <<>>,
   result |-> processFiles(files)]

\* the promise once its reads have completed
Settle(promise) ==
  [promise EXCEPT !.state = promise.result.state,
                  !.stats = promise.result.stats,
                  !.message = promise.result.message]

\* handleGenerateReport in single mode up to the first await: the button is
\* enabled only when rawFiles is not empty
handleGenerateReport ==
  /\ step = "upload"
  /\ mode = "single"
  /\ Len(rawFiles) > 0
  /\ step' = "processing"
  /\ error' = <<>>
  /\ i' = 1
  /\ processedFiles' = <<>>
  /\ selectedFiles' = <<>>
  /\ settled' = ("single" :> Pending(rawFiles))
  /\ UNCHANGED <<rawFiles, stats, consoleErrors>>
  /\ UNCHANGED <<mode, comparisonType, periods, viewVars>>

\* one iteration of the loop of parseExcelFiles whose try block completes
parseFile ==
  /\ step = "processing"
  /\ i <= Len(rawFiles)
  /\ rawFiles[i].readable
  /\ processedFiles' = Append(processedFiles, ProcessedFileOf(rawFiles[i]))
  /\ i' = i + 1
  /\ UNCHANGED <<rawFiles, step, stats, error, consoleErrors>>
  /\ UNCHANGED <<appVars, viewVars>>

\* a catch that rethrows: the failure of one file ends the generation
parseFileRethrow ==
  /\ step = "processing"
  /\ i <= Len(rawFiles)
  /\ ~rawFiles[i].readable
  /\ error' = <<"Failed to process files.">>
  /\ step' = "upload"
  /\ UNCHANGED <<rawFiles, stats, i, processedFiles, consoleErrors>>
  /\ UNCHANGED <<appVars, viewVars>>

\* one iteration whose try block throws: the catch logs and the loop goes on
parseFileCatch ==
  /\ step = "processing"
  /\ i <= Len(rawFiles)
  /\ ~rawFiles[i].readable
  /\ consoleErrors' = consoleErrors \cup {rawFiles[i].name}
  /\ i' = i + 1
  /\ UNCHANGED <<rawFiles, step, stats, error, processedFiles>>
  /\ UNCHANGED <<appVars, viewVars>>

\* processFiles throws, and the catch of handleGenerateReport reports it
processFilesThrow ==
  /\ step = "processing"
  /\ i > Len(rawFiles)
  /\ ~hasData(processedFiles)
  /\ error' = <<NoDataMessage>>
  /\ step' = "upload"
  /\ selectedFiles' = ("single" :> <<>>)
  /\ settled' = <<>>
  /\ UNCHANGED <<rawFiles, stats, i, processedFiles, consoleErrors>>
  /\ UNCHANGED <<mode, comparisonType, periods, viewVars>>

\* processFiles returns calculateAggregates(processedData), which is stored
processFilesReturn ==
  /\ step = "processing"
  /\ i > Len(rawFiles)
  /\ hasData(processedFiles)
  /\ stats' = <<calculateAggregates(processedFiles)>>
  /\ step' = "report"
  /\ settled' = <<>>
  /\ UNCHANGED <<rawFiles, error, i, processedFiles, consoleErrors>>
  /\ UNCHANGED <<mode, comparisonType, periods, selectedFiles, viewVars>>

Next ==
  \/ handleGenerateReport
  \/ parseFile
  \/ parseFileCatch
  \/ processFilesThrow
  \/ processFilesReturn

Spec == Init /\ [][Next]_vars

\* ------------------------------------------- the dashboards on their own
\* a dashboard is handed any sequence of up to MaxPeriods periods
AnalyzerInit ==
  /\ \E n \in 0..MaxPeriods : \E sts \in [1..n -> PeriodStats] :
       periods = PeriodsOf(sts)
  /\ rawFiles = <<>>
  /\ step = "report"
  /\ stats = <<>>
  /\ error = <<>>
  /\ i = 1
  /\ processedFiles = <<>>
  /\ consoleErrors = {}
  /\ mode = "compare"
  /\ comparisonType = "trend"
  /\ settled = <<>>
  /\ selectedFiles = <<>>
  /\ dashboard = "none"
  /\ chartData = <<>>
  /\ insights = <<>>
  /\ metricCards = <<>>

\* TrendDashboard renders: the chartData and insights memos are computed
TrendDashboardRender ==
  /\ step = "report"
  /\ ~(mode = "single" /\ stats # <<>>)
  /\ dashboard = "none"
  /\ dashboard' = "TrendDashboard"
  /\ chartData' = chartDataOf(periods)
  /\ insights' = insightsOf(chartDataOf(periods))
  /\ UNCHANGED <<pipelineVars, appVars, metricCards>>

\* ComparisonDashboard renders with the stats of two periods, the earlier one
\* as prevStats
ComparisonDashboardRender ==
  /\ step = "report"
  /\ dashboard = "none"
  /\ \E j \in 1..Len(periods), k \in 1..Len(periods) :
       /\ j < k
       /\ periods[j].stats # <<>>
       /\ periods[k].stats # <<>>
       /\ metricCards' = MetricCardsOf(periods[k].stats[1], periods[j].stats[1])
  /\ dashboard' = "ComparisonDashboard"
  /\ UNCHANGED <<pipelineVars, appVars, chartData, insights>>

AnalyzerNext ==
  \/ TrendDashboardRender
  \/ ComparisonDashboardRender

AnalyzerSpec == AnalyzerInit /\ [][AnalyzerNext]_vars

\* ---------------------------------------------------------------- the App
\* the files a user can select: one with a server row, one whose only row has
\* a date and no server
GoodFile ==
  [name |-> "good.xlsx", readable |-> TRUE,
   rows |-> <<ServerRow(sA, 3, 0, 1, 4)>>]

NoDataFile ==
  [name |-> "nodata.xlsx", readable |-> TRUE,
   rows |-> <<Row(Str(sEmpty), Str(sDate), Num(1), Num(0), Num(0), Num(1))>>]

SelectableFiles == {GoodFile, NoDataFile}

PeriodIdsOf(ps) == {ps[k].id : k \in 1..Len(ps)}

\* the place of the period of an id in periods
IndexOfPeriod(ps, id) == CHOOSE k \in 1..Len(ps) : ps[k].id = id

\* the keys of the FileUploaders the upload step shows
UploaderKeys(m, ps) == IF m = "single" THEN {"single"} ELSE PeriodIdsOf(ps)

\* the state of the FileUploaders after a render: one that stays mounted keeps
\* its selectedFiles, one that is mounted starts with none
Rendered(old, keys) ==
  [k \in keys |-> IF k \in DOMAIN old THEN old[k] ELSE <<>>]

\* the number of files the App holds
RECURSIVE PeriodFilesCount(_)
PeriodFilesCount(ps) ==
  IF ps = <<>> THEN 0 ELSE Len(Head(ps).files) + PeriodFilesCount(Tail(ps))

\* prev.map(p => p.id === id ? { ...p, [field]: value } : p) for field 'files'
updatePeriodFiles(ps, id, files) ==
  [k \in 1..Len(ps) |-> IF ps[k].id = id THEN [ps[k] EXCEPT !.files = files]
                        ELSE ps[k]]

RemoveAt(seq, index) ==
  [k \in 1..(Len(seq) - 1) |-> IF k < index THEN seq[k] ELSE seq[k + 1]]

AppInit ==
  /\ rawFiles = <<>>
  /\ step = "upload"
  /\ stats = <<>>
  /\ error = <<>>
  /\ i = 1
  /\ processedFiles = <<>>
  /\ consoleErrors = {}
  /\ mode = "single"
  /\ comparisonType = "pairwise"
  /\ periods = InitialPeriods
  /\ settled = <<>>
  /\ selectedFiles = ("single" :> <<>>)
  /\ dashboard = "none"
  /\ chartData = <<>>
  /\ insights = <<>>
  /\ metricCards = <<>>

\* the Single Report and Comparison buttons of the upload step
setMode ==
  /\ step = "upload"
  /\ \E m \in {"single", "compare"} :
       /\ m # mode
       /\ mode' = m
       /\ selectedFiles' = Rendered(<<>>, UploaderKeys(m, periods))
  /\ UNCHANGED <<pipelineVars, comparisonType, periods, settled, viewVars>>

\* a With Last Month button that keeps the periods it finds
setComparisonTypePairwiseNoReset ==
  /\ step = "upload"
  /\ mode = "compare"
  /\ comparisonType' = "pairwise"
  /\ UNCHANGED <<pipelineVars, mode, periods, settled, selectedFiles, viewVars>>

\* the With Last Month button: back to two fresh periods unless there are two
setComparisonTypePairwise ==
  /\ step = "upload"
  /\ mode = "compare"
  /\ comparisonType' = "pairwise"
  /\ periods' = IF Len(periods) # 2 THEN InitialPeriods ELSE periods
  /\ selectedFiles' = Rendered(selectedFiles, PeriodIdsOf(periods'))
  /\ UNCHANGED <<pipelineVars, mode, settled, viewVars>>

\* the Trend Series button
setComparisonTypeTrend ==
  /\ step = "upload"
  /\ mode = "compare"
  /\ comparisonType' = "trend"
  /\ UNCHANGED <<pipelineVars, mode, periods, settled, selectedFiles, viewVars>>

\* addPeriod: a period with a fresh id, no files and no stats
addPeriod ==
  /\ step = "upload"
  /\ mode = "compare"
  /\ comparisonType = "trend"
  /\ Len(periods) < MaxPeriods
  /\ LET id == CHOOSE x \in Range(PeriodIds) \ ({"1", "2"} \cup PeriodIdsOf(periods)) :
                 \A y \in Range(PeriodIds) \ ({"1", "2"} \cup PeriodIdsOf(periods)) :
                   IndexOfId(x) <= IndexOfId(y)
     IN  /\ periods' = Append(periods, Period(id, months[1], "2026", <<>>, <<>>))
         /\ selectedFiles' = Rendered(selectedFiles, PeriodIdsOf(periods'))
  /\ UNCHANGED <<pipelineVars, mode, comparisonType, settled, viewVars>>

\* removePeriod, from the button shown for a trend of more than two periods
removePeriod ==
  /\ step = "upload"
  /\ mode = "compare"
  /\ comparisonType = "trend"
  /\ Len(periods) > 2
  /\ \E k \in 1..Len(periods) :
       /\ periods' = (IF Len(periods) <= 2 THEN periods ELSE RemoveAt(periods, k))
       /\ selectedFiles' = Rendered(selectedFiles, PeriodIdsOf(periods'))
  /\ UNCHANGED <<pipelineVars, mode, comparisonType, settled, viewVars>>

\* addFiles of a FileUploader with one file, and the onFilesSelected it calls
addFiles ==
  /\ step = "upload"
  /\ \E key \in DOMAIN selectedFiles, f \in SelectableFiles :
       LET combined == Append(selectedFiles[key], f) IN
         /\ Len(combined) <= MaxFiles
         /\ selectedFiles' = [selectedFiles EXCEPT ![key] = combined]
         /\ IF key = "single"
            THEN rawFiles' = combined /\ periods' = periods
            ELSE rawFiles' = rawFiles
                 /\ periods' = updatePeriodFiles(periods, key, combined)
         /\ Len(rawFiles') + PeriodFilesCount(periods') <= MaxUploads
  /\ UNCHANGED <<step, stats, error, i, processedFiles, consoleErrors>>
  /\ UNCHANGED <<mode, comparisonType, settled, viewVars>>

\* removeFile of a FileUploader, and the onFilesSelected it calls
removeFile ==
  /\ step = "upload"
  /\ \E key \in DOMAIN selectedFiles :
       \E index \in 1..Len(selectedFiles[key]) :
         LET updated == RemoveAt(selectedFiles[key], index) IN
           /\ selectedFiles' = [selectedFiles EXCEPT ![key] = updated]
           /\ IF key = "single"
              THEN rawFiles' = updated /\ periods' = periods
              ELSE rawFiles' = rawFiles
                   /\ periods' = updatePeriodFiles(periods, key, updated)
  /\ UNCHANGED <<step, stats, error, i, processedFiles, consoleErrors>>
  /\ UNCHANGED <<mode, comparisonType, settled, viewVars>>

\* a catch that stores the error and goes on to the report
processFilesRejectToReport ==
  /\ step = "processing"
  /\ mode = "single"
  /\ settled["single"].result.state = "rejected"
  /\ error' = settled["single"].result.message
  /\ step' = "report"
  /\ settled' = <<>>
  /\ UNCHANGED <<rawFiles, stats, i, processedFiles, consoleErrors>>
  /\ UNCHANGED <<mode, comparisonType, periods, selectedFiles, viewVars>>

\* single mode, processFiles(rawFiles) rejects: the catch of
\* handleGenerateReport sets the error and goes back to the upload step
processFilesReject ==
  /\ step = "processing"
  /\ mode = "single"
  /\ settled["single"].result.state = "rejected"
  /\ error' = settled["single"].result.message
  /\ step' = "upload"
  /\ selectedFiles' = ("single" :> <<>>)
  /\ settled' = <<>>
  /\ UNCHANGED <<rawFiles, stats, i, processedFiles, consoleErrors>>
  /\ UNCHANGED <<mode, comparisonType, periods, viewVars>>

\* single mode, processFiles(rawFiles) fulfils: setStats and the report step
processFilesResolve ==
  /\ step = "processing"
  /\ mode = "single"
  /\ settled["single"].result.state = "fulfilled"
  /\ stats' = settled["single"].result.stats
  /\ step' = "report"
  /\ settled' = <<>>
  /\ UNCHANGED <<rawFiles, error, i, processedFiles, consoleErrors>>
  /\ UNCHANGED <<mode, comparisonType, periods, selectedFiles, viewVars>>

\* handleGenerateReport in compare mode up to the first await: the button is
\* enabled only when every period has a file
handleGenerateReportCompare ==
  /\ step = "upload"
  /\ mode = "compare"
  /\ \A k \in 1..Len(periods) : Len(periods[k].files) > 0
  /\ IF \E k \in 1..Len(periods) : Len(periods[k].files) = 0
     THEN /\ error' = <<"Please upload files for all selected periods.">>
          /\ UNCHANGED <<step, settled, selectedFiles>>
     ELSE /\ step' = "processing"
          /\ error' = <<>>
          /\ settled' = [id \in PeriodIdsOf(periods) |->
                            Pending(periods[IndexOfPeriod(periods, id)].files)]
          /\ selectedFiles' = <<>>
  /\ UNCHANGED <<rawFiles, stats, i, processedFiles, consoleErrors>>
  /\ UNCHANGED <<mode, comparisonType, periods, viewVars>>

\* a period whose promise fulfils writes its stats into periods at once
settlePeriodEager ==
  /\ step = "processing"
  /\ mode = "compare"
  /\ \E k \in 1..Len(periods) :
       /\ settled[periods[k].id].state = "pending"
       /\ settled' = [settled EXCEPT ![periods[k].id] = Settle(@)]
       /\ periods' = [periods EXCEPT ![k].stats = settled[periods[k].id].result.stats]
       /\ consoleErrors' = consoleErrors
            \cup {f.name : f \in {g \in Range(periods[k].files) : ~g.readable}}
  /\ UNCHANGED <<rawFiles, step, stats, error, i, processedFiles>>
  /\ UNCHANGED <<mode, comparisonType, selectedFiles, viewVars>>

\* the promise of one period settles; a file that does not decode is logged
\* by parseExcelFiles
settlePeriod ==
  /\ step = "processing"
  /\ mode = "compare"
  /\ \E k \in 1..Len(periods) :
       /\ settled[periods[k].id].state = "pending"
       /\ settled' = [settled EXCEPT ![periods[k].id] = Settle(@)]
       /\ consoleErrors' = consoleErrors
            \cup {f.name : f \in {g \in Range(periods[k].files) : ~g.readable}}
  /\ UNCHANGED <<rawFiles, step, stats, error, i, processedFiles>>
  /\ UNCHANGED <<mode, comparisonType, periods, selectedFiles, viewVars>>

\* a rejection that sets the error and has no setStep('upload')
promiseAllRejectNoStep ==
  /\ step = "processing"
  /\ mode = "compare"
  /\ \E id \in DOMAIN settled :
       /\ settled[id].state = "rejected"
       /\ error' = settled[id].message
  /\ UNCHANGED <<rawFiles, step, stats, i, processedFiles, consoleErrors>>
  /\ UNCHANGED <<appVars, viewVars>>

\* Promise.all rejects with the first rejection: the catch of
\* handleGenerateReport sets the error and goes back to the upload step
promiseAllReject ==
  /\ step = "processing"
  /\ mode = "compare"
  /\ \E id \in DOMAIN settled :
       /\ settled[id].state = "rejected"
       /\ error' = settled[id].message
  /\ step' = "upload"
  /\ settled' = <<>>
  /\ selectedFiles' = Rendered(<<>>, UploaderKeys(mode, periods))
  /\ UNCHANGED <<rawFiles, stats, i, processedFiles, consoleErrors>>
  /\ UNCHANGED <<mode, comparisonType, periods, viewVars>>

\* a fulfilment that goes to the report step without setPeriods
promiseAllResolveNoStats ==
  /\ step = "processing"
  /\ mode = "compare"
  /\ \A id \in DOMAIN settled : settled[id].state = "fulfilled"
  /\ step' = "report"
  /\ settled' = <<>>
  /\ UNCHANGED <<rawFiles, stats, error, i, processedFiles, consoleErrors>>
  /\ UNCHANGED <<mode, comparisonType, periods, selectedFiles, viewVars>>

\* Promise.all fulfils: setPeriods(updatedPeriods) and the report step
promiseAllResolve ==
  /\ step = "processing"
  /\ mode = "compare"
  /\ \A id \in DOMAIN settled : settled[id].state = "fulfilled"
  /\ periods' = [k \in 1..Len(periods) |->
                   [periods[k] EXCEPT !.stats = settled[periods[k].id].stats]]
  /\ step' = "report"
  /\ settled' = <<>>
  /\ UNCHANGED <<rawFiles, stats, error, i, processedFiles, consoleErrors>>
  /\ UNCHANGED <<mode, comparisonType, selectedFiles, viewVars>>

\* handleReset, the onReset of the dashboard of the report step
handleReset ==
  /\ step = "report"
  /\ step' = "upload"
  /\ stats' = <<>>
  /\ rawFiles' = <<>>
  /\ periods' = InitialPeriods
  /\ error' = <<>>
  /\ selectedFiles' = Rendered(<<>>, UploaderKeys(mode, InitialPeriods))
  /\ dashboard' = "none"
  /\ chartData' = <<>>
  /\ insights' = <<>>
  /\ metricCards' = <<>>
  /\ UNCHANGED <<i, processedFiles, consoleErrors, mode, comparisonType, settled>>

AppNext ==
  \/ setMode
  \/ setComparisonTypePairwise
  \/ setComparisonTypeTrend
  \/ addPeriod
  \/ removePeriod
  \/ addFiles
  \/ removeFile
  \/ handleGenerateReport
  \/ processFilesReject
  \/ processFilesResolve
  \/ handleGenerateReportCompare
  \/ settlePeriod
  \/ promiseAllReject
  \/ promiseAllResolve
  \/ TrendDashboardRender
  \/ handleReset

AppSpec == AppInit /\ [][AppNext]_vars

\* the App when every file read completes or fails: a promise that can settle
\* does, and the continuation of an await that has settled runs
AppLiveSpec ==
  /\ AppSpec
  /\ WF_vars(processFilesReject)
  /\ WF_vars(processFilesResolve)
  /\ WF_vars(settlePeriod)
  /\ WF_vars(promiseAllReject)
  /\ WF_vars(promiseAllResolve)

\* ============================================================ the claims
\* a report generation has run to its end: it stored stats or an error
Finished == step # "processing" /\ (stats # <<>> \/ error # <<>>)

BlankAfterTrim(server, date) == trim(server) = <<>> /\ trim(date) = <<>>

TotalLike(server, date) ==
  includes(toUpperCase(server), TOTAL) \/ includes(toUpperCase(date), TOTAL)

\* the File of rawFiles a ProcessedFile was made from
SourceOf(pf) == CHOOSE f \in Range(rawFiles) : f.name = pf.fileName

\* a processed file has a server record or a total row
Usable(pf) == Len(pf.records) > 0 \/ pf.fileTotalRow # <<>>

\* sum of field f over the records whose trimmed identifier is ip
RECURSIVE SumFor(_, _, _)
SumFor(records, ip, f) ==
  IF records = <<>> THEN 0
  ELSE (IF trim(Head(records).serverIp) = ip THEN Head(records)[f] ELSE 0)
         + SumFor(Tail(records), ip, f)

RECURSIVE SumOverFiles(_, _, _)
SumOverFiles(files, ip, f) ==
  IF files = <<>> THEN 0
  ELSE SumFor(Head(files).records, ip, f) + SumOverFiles(Tail(files), ip, f)

\* v is the integer nearest to s / n, a half going up
NearestHalfUp(v, s, n) == 2 * n * v - n <= 2 * s /\ 2 * s < 2 * n * v + n

Abs(x) == IF x < 0 THEN -x ELSE x

RECURSIVE Gcd(_, _)
Gcd(a, b) == IF b = 0 THEN a ELSE Gcd(b, a % b)

\* the sum of two fractions, in lowest terms
FracAdd(x, y) ==
  LET n == x.num * y.den + y.num * x.den
      d == x.den * y.den
      g == Gcd(Abs(d), Abs(n))
  IN  [num |-> n \div g, den |-> d \div g]

\* C1: every row of serverBreakdown has idle + busy + fault = total, and the
\* grand totals have totalIdle + totalBusy + totalFault = totalCalls
C1_Reconciliation ==
  stats # <<>> =>
    LET s == stats[1] IN
      /\ \A r \in Range(s.serverBreakdown) : r.idle + r.busy + r.fault = r.total
      /\ s.totalIdle + s.totalBusy + s.totalFault = s.totalCalls

\* C1 witness: stats with a server row made from a record whose TOTAL cell is
\* not the sum of its IDLE, BUSY and FAULT cells
C1_Witness ==
  /\ stats # <<>>
  /\ stats[1].totalCalls > 0
  /\ \E pf \in Range(processedFiles) : \E r \in Range(pf.records) :
       r.total # r.idle + r.busy + r.fault

\* C2: with totalCalls > 0 each utilization is its category total divided by
\* totalCalls times 100 and the three add up to 100; with totalCalls = 0 the
\* three are 0; no utilization is a division by zero
C2_UtilizationSum ==
  stats # <<>> =>
    LET s  == stats[1]
        ui == s.utilizationIdle
        ub == s.utilizationBusy
        uf == s.utilizationFault
    IN  /\ ui.den # 0 /\ ub.den # 0 /\ uf.den # 0
        /\ s.totalCalls > 0 =>
             /\ ui.num * s.totalCalls = s.totalIdle * 100 * ui.den
             /\ ub.num * s.totalCalls = s.totalBusy * 100 * ub.den
             /\ uf.num * s.totalCalls = s.totalFault * 100 * uf.den
             /\ LET sum == FracAdd(FracAdd(ui, ub), uf)
                IN  sum.num = 100 * sum.den
        /\ s.totalCalls = 0 => ui.num = 0 /\ ub.num = 0 /\ uf.num = 0

\* C2 witness: stats of a batch with servers and a grand total of 0 calls
C2_Witness ==
  /\ stats # <<>>
  /\ stats[1].totalCalls = 0
  /\ Len(stats[1].serverBreakdown) > 0

\* C3: each of the three utilization values lies in [0, 100]
C3_UtilizationRange ==
  stats # <<>> =>
    \A u \in {stats[1].utilizationIdle, stats[1].utilizationBusy,
              stats[1].utilizationFault} :
      u.den > 0 /\ 0 <= u.num /\ u.num <= 100 * u.den

\* C4: a finished generation failed with the no-usable-data error and stored
\* no stats exactly when no processed file has a server record or a
\* fileTotalRow; otherwise it stored the stats and shows the report
C4_NoUsableData ==
  Finished =>
    IF \E pf \in Range(processedFiles) :
         Len(pf.records) > 0 \/ pf.fileTotalRow # <<>>
    THEN step = "report" /\ stats # <<>> /\ error = <<>>
    ELSE step = "upload" /\ stats = <<>> /\ error = <<NoDataMessage>>

\* C4 witness: a generation that decoded a file and failed for lack of data
C4_Witness ==
  /\ Finished
  /\ Len(processedFiles) > 0
  /\ error = <<NoDataMessage>>
  /\ stats = <<>>

\* C5: a batch whose rows are all blank after trimming ends in the
\* no-usable-data error and never in stats
C5_BlankBatchFails ==
  (/\ Finished
   /\ \A f \in Range(rawFiles) : \A row \in Range(f.rows) :
        BlankAfterTrim(StringOrEmpty(row.SERVER), StringOrEmpty(row.DATE)))
    => step = "upload" /\ stats = <<>> /\ error = <<NoDataMessage>>

\* C6: a row whose server identifier and date are both empty after trimming
\* leaves no record and no fileTotalRow in its ProcessedFile
C6_BlankRowsDiscarded ==
  \A pf \in Range(processedFiles) :
    /\ \A r \in Range(pf.records) : ~BlankAfterTrim(r.serverIp, r.date)
    /\ \A r \in Range(pf.fileTotalRow) : ~BlankAfterTrim(r.serverIp, r.date)

\* C7: a row whose uppercased identifier or date contains TOTAL is never among
\* the records of its file, and fileTotalRow is the last such row of the file
C7_TotalRows ==
  \A pf \in Range(processedFiles) :
    LET rows   == SourceOf(pf).rows
        totals == {j \in 1..Len(rows) :
                     TotalLike(StringOrEmpty(rows[j].SERVER),
                               StringOrEmpty(rows[j].DATE))}
    IN  /\ \A r \in Range(pf.records) : ~TotalLike(r.serverIp, r.date)
        /\ pf.fileTotalRow =
             IF totals = {} THEN <<>> ELSE <<RecordOf(rows[Max(totals)])>>

\* C7 witness: a file with two different total rows, the first of which has a
\* non-empty server identifier
C7_Witness ==
  \E pf \in Range(processedFiles) :
    LET rows == SourceOf(pf).rows IN
      /\ Len(rows) >= 2
      /\ StringOrEmpty(rows[1].SERVER) = sATotal
      /\ TotalLike(StringOrEmpty(rows[2].SERVER), StringOrEmpty(rows[2].DATE))
      /\ rows[1] # rows[2]
      /\ pf.fileTotalRow = <<RecordOf(rows[2])>>

\* the batch of the second scenario of C8: two files, each with the one row
\* 100, 50, 10 of the same server
TwoEqualFiles ==
  /\ Len(processedFiles) = 2
  /\ \A pf \in Range(processedFiles) :
       /\ Len(pf.records) = 1
       /\ pf.records[1].serverIp = sA
       /\ pf.records[1].idle = 100
       /\ pf.records[1].busy = 50
       /\ pf.records[1].fault = 10

\* C8: each of idle, busy and fault of a server row is the integer nearest to
\* (the sum of the field over all records of that server) / N, a half going
\* up, where N is the number of files of the batch; two files with the same
\* row 100, 50, 10 give 100, 50, 10 and total 160
C8_AverageOverFileCount ==
  stats # <<>> =>
    /\ \A r \in Range(stats[1].serverBreakdown) :
         \A f \in {"idle", "busy", "fault"} :
           NearestHalfUp(r[f], SumOverFiles(processedFiles, r.serverIp, f),
                         Len(processedFiles))
    /\ TwoEqualFiles =>
         /\ Len(stats[1].serverBreakdown) = 1
         /\ stats[1].serverBreakdown[1].idle = 100
         /\ stats[1].serverBreakdown[1].busy = 50
         /\ stats[1].serverBreakdown[1].fault = 10
         /\ stats[1].serverBreakdown[1].total = 160

\* C8 witness: two files, a server with idle 3 in one of them and absent
\* from the other, and an averaged idle of 2
C8_Witness ==
  /\ stats # <<>>
  /\ Len(processedFiles) = 2
  /\ \E r \in Range(stats[1].serverBreakdown) :
       /\ r.idle = 2
       /\ SumOverFiles(processedFiles, r.serverIp, "idle") = 3
       /\ \E pf \in Range(processedFiles) :
            \A rec \in Range(pf.records) : trim(rec.serverIp) # r.serverIp

\* C9: serverBreakdown is sorted ascending by server identifier
C9_SortedBreakdown ==
  stats # <<>> =>
    LET sb == stats[1].serverBreakdown IN
      \A a \in 1..Len(sb) : \A b \in 1..Len(sb) :
        a < b => localeCompare(sb[a].serverIp, sb[b].serverIp) <= 0

\* C9 witness: a breakdown of several servers whose first row is not the
\* server of the first record met
C9_Witness ==
  /\ stats # <<>>
  /\ Len(stats[1].serverBreakdown) >= 2
  /\ trim(AllRecords(processedFiles)[1].serverIp)
       # stats[1].serverBreakdown[1].serverIp

\* the names of the first n files that decode, in input order
RECURSIVE ReadableNames(_, _)
ReadableNames(files, n) ==
  IF n = 0 THEN <<>>
  ELSE ReadableNames(files, n - 1)
         \o (IF files[n].readable THEN <<files[n].name>> ELSE <<>>)

\* C10: a file whose decoding fails gives no ProcessedFile, the other files
\* give theirs in input order, and a batch with a failed file and a file with
\* usable data still ends in the report
C10_DecodeFailureSkipsFile ==
  /\ step = "processing" \/ Finished =>
       /\ [k \in 1..Len(processedFiles) |-> processedFiles[k].fileName]
            = ReadableNames(rawFiles, i - 1)
       /\ \A pf \in Range(processedFiles) : pf = ProcessedFileOf(SourceOf(pf))
  /\ (/\ Finished
      /\ \E f \in Range(rawFiles) : ~f.readable
      /\ \E f \in Range(rawFiles) : f.readable /\ Usable(ProcessedFileOf(f)))
       => i = Len(rawFiles) + 1 /\ step = "report" /\ stats # <<>>

\* C10 witness: a report made from a batch whose first file failed to decode
C10_Witness ==
  /\ step = "report"
  /\ ~rawFiles[1].readable
  /\ Len(processedFiles) = Len(rawFiles) - 1
  /\ Len(processedFiles) >= 1

\* the file names carried by what parseExcelFiles returns to processFiles
NamesReturned == {pf.fileName : pf \in Range(processedFiles)}

\* C11: when a generation has finished, every file that was skipped because
\* its decoding failed is named in what the caller of the file processor got
C11_SkippedFilesReported ==
  Finished =>
    \A f \in Range(rawFiles) : ~f.readable => f.name \in NamesReturned

\* a row the code keeps as a server record: a non-empty server identifier and
\* no TOTAL in the identifier or the date
ServerRowLike(row) ==
  /\ StringOrEmpty(row.SERVER) # <<>>
  /\ ~TotalLike(StringOrEmpty(row.SERVER), StringOrEmpty(row.DATE))

\* the value a cell must have in a record: its number, or 0 when the cell is
\* missing or holds no number
CoercedCell(c) == IF c.kind = "number" THEN c.n ELSE 0

CellOf(row, f) ==
  CASE f = "idle"  -> row.IDLE
    [] f = "busy"  -> row.BUSY
    [] f = "fault" -> row.FAULT
    [] OTHER       -> row.TOTAL

NumericFields == {"idle", "busy", "fault", "total"}

IsZeroRecord(r) == r.idle = 0 /\ r.busy = 0 /\ r.fault = 0

\* C17: a missing or non-numeric IDLE, BUSY, FAULT or TOTAL cell is 0 in the
\* record made from its row, the row is still processed, and every numeric
\* field of every record and of the stats is a number, never NaN
C17_NumericCoercion ==
  /\ \A pf \in Range(processedFiles) :
       LET kept == SelectSeq(SourceOf(pf).rows, ServerRowLike) IN
         /\ Len(pf.records) = Len(kept)
         /\ \A k \in 1..Len(pf.records) : \A f \in NumericFields :
              /\ pf.records[k][f] \in Int
              /\ pf.records[k][f] = CoercedCell(CellOf(kept[k], f))
         /\ \A t \in Range(pf.fileTotalRow) : \A f \in NumericFields : t[f] \in Int
  /\ stats # <<>> =>
       LET s == stats[1] IN
         /\ \A f \in {"totalIdle", "totalBusy", "totalFault", "totalCalls",
                      "avgIdle", "avgBusy", "avgFault"} : s[f] \in Int
         /\ \A f \in {"utilizationIdle", "utilizationBusy", "utilizationFault"} :
              s[f].num \in Int /\ s[f].den \in Int /\ s[f].den # 0
         /\ \A r \in Range(s.serverBreakdown) : \A f \in NumericFields : r[f] \in Int

\* C17 witness: stats made from a record whose row has a missing cell and a
\* cell with a text that is no number
C17_Witness ==
  /\ stats # <<>>
  /\ \E pf \in Range(processedFiles) :
       \E row \in Range(SelectSeq(SourceOf(pf).rows, ServerRowLike)) :
         /\ \E f \in NumericFields : CellOf(row, f).kind = "undefined"
         /\ \E f \in NumericFields :
              CellOf(row, f).kind = "string" /\ CellOf(row, f).s # <<>>

\* C18: every record of every ProcessedFile has a non-empty serverIp; a row
\* with an empty server identifier that is neither a total row nor blank gives
\* no record and no fileTotalRow
C18_RecordsHaveServerIp ==
  \A pf \in Range(processedFiles) :
    LET rows == SourceOf(pf).rows IN
      /\ \A r \in Range(pf.records) : r.serverIp # <<>>
      /\ \A t \in Range(pf.fileTotalRow) : TotalLike(t.serverIp, t.date)
      /\ Len(pf.records)
           <= Cardinality({j \in 1..Len(rows) : StringOrEmpty(rows[j].SERVER) # <<>>})

\* C18 witness: a processed file with a row that has a date, no server
\* identifier and no TOTAL marker
C18_Witness ==
  \E pf \in Range(processedFiles) :
    \E row \in Range(SourceOf(pf).rows) :
      /\ StringOrEmpty(row.SERVER) = <<>>
      /\ StringOrEmpty(row.DATE) # <<>>
      /\ ~TotalLike(StringOrEmpty(row.SERVER), StringOrEmpty(row.DATE))

RECURSIVE RowSum(_, _, _)
RowSum(rows, f, n) == IF n = 0 THEN 0 ELSE RowSum(rows, f, n - 1) + rows[n][f]

\* C20: totalIdle, totalBusy, totalFault and totalCalls are the sums over the
\* rows of serverBreakdown of the rounded idle, busy, fault and total
C20_GrandTotalsAreSums ==
  stats # <<>> =>
    LET s  == stats[1]
        sb == s.serverBreakdown
    IN  /\ s.totalIdle  = RowSum(sb, "idle", Len(sb))
        /\ s.totalBusy  = RowSum(sb, "busy", Len(sb))
        /\ s.totalFault = RowSum(sb, "fault", Len(sb))
        /\ s.totalCalls = RowSum(sb, "total", Len(sb))

\* C20 witness: several servers, and a totalCalls that is not the rounding of
\* the summed raw counts divided by the number of files
C20_Witness ==
  /\ stats # <<>>
  /\ Len(stats[1].serverBreakdown) >= 2
  /\ LET all == AllRecords(processedFiles)
         raw == RowSum(all, "idle", Len(all)) + RowSum(all, "busy", Len(all))
                  + RowSum(all, "fault", Len(all))
     IN  ~NearestHalfUp(stats[1].totalCalls, raw, Len(processedFiles))

\* ------------------------------------------------ claims on the dashboards
HasStats(p) == p.stats # <<>>

\* the periods that carry stats, in sequence order
WithStats(ps) == SelectSeq(ps, HasStats)

\* the exact fault-utilization percentage of a period, a fraction
FaultOf(p) == p.stats[1].utilizationFault

\* a < b for two fractions with positive denominators
FracLess(a, b) == a.num * b.den < b.num * a.den

Label(p) == <<p.month, p.year>>

\* C13: on every count card of the comparison, the change is
\* (current - prev) / prev * 100 when prev # 0, 0 when prev = 0 and
\* current = 0, and 100 when prev = 0 and current # 0
C13_PercentageChange ==
  dashboard = "ComparisonDashboard" =>
    \A k \in 1..Len(metricCards) :
      LET c == metricCards[k] IN
      ~c.isPercentage =>
        /\ c.change.den # 0
        /\ IF c.prev # 0
           THEN c.change.num * c.prev = (c.current - c.prev) * 100 * c.change.den
           ELSE IF c.current = 0 THEN c.change.num = 0
           ELSE c.change.num = 100 * c.change.den

\* C13 witness: a comparison with a card whose counts are both 0, a card whose
\* previous count alone is 0, and a card whose previous count is not 0
C13_Witness ==
  /\ dashboard = "ComparisonDashboard"
  /\ \E k \in 1..Len(metricCards) :
       LET c == metricCards[k] IN ~c.isPercentage /\ c.prev = 0 /\ c.current = 0
  /\ \E k \in 1..Len(metricCards) :
       LET c == metricCards[k] IN ~c.isPercentage /\ c.prev = 0 /\ c.current # 0
  /\ \E k \in 1..Len(metricCards) :
       LET c == metricCards[k] IN
         ~c.isPercentage /\ c.prev # 0 /\ c.current # c.prev

\* C14: with d the fault utilization of the last period carrying stats minus
\* that of the first, the direction is 'increased' exactly when d > 0 and the
\* magnitude is |d| (to the two decimals it is reported with)
C14_TrendDirection ==
  (dashboard = "TrendDashboard" /\ insights # <<>>) =>
    LET ws   == WithStats(periods)
        f    == FaultOf(ws[1])
        l    == FaultOf(ws[Len(ws)])
        dnum == l.num * f.den - f.num * l.den
        dden == l.den * f.den
    IN  /\ insights[1].direction = "increased" <=> dnum > 0
        /\ insights[1].direction \in {"increased", "decreased"}
        /\ 2 * Abs(insights[1].diff * dden - Abs(dnum) * 100) <= dden

\* C15: the peak period has the maximal fault utilization of the periods
\* carrying stats and is the first of those that have it
C15_PeakPeriod ==
  (dashboard = "TrendDashboard" /\ insights # <<>>) =>
    LET ws == WithStats(periods) IN
      \E k \in 1..Len(ws) :
        /\ Label(ws[k]) = insights[1].peakMonth
        /\ \A j \in 1..Len(ws) : ~FracLess(FaultOf(ws[k]), FaultOf(ws[j]))
        /\ \A j \in 1..(k - 1) : FracLess(FaultOf(ws[j]), FaultOf(ws[k]))

\* C16: there is an insight exactly when at least two periods carry stats, and
\* the chart, the first, the last and the peak are taken from the periods that
\* carry stats only
C16_InsightNeedsTwo ==
  dashboard = "TrendDashboard" =>
    LET ws == WithStats(periods) IN
      /\ insights # <<>> <=> Len(ws) >= 2
      /\ Len(chartData) = Len(ws)
      /\ \A k \in 1..Len(ws) :
           /\ chartData[k].name = Label(ws[k])
           /\ chartData[k].Fault = ws[k].stats[1].totalFault
      /\ insights # <<>> =>
           /\ \E k \in 1..Len(ws) : insights[1].peakMonth = Label(ws[k])
           /\ insights[1].diff
                = Abs(chartData[Len(ws)].FaultPct - chartData[1].FaultPct)

\* C16 witness: an insight over periods of which the first and the last carry
\* no stats
C16_Witness ==
  /\ dashboard = "TrendDashboard"
  /\ insights # <<>>
  /\ Len(periods) >= 3
  /\ periods[1].stats = <<>>
  /\ Len(WithStats(periods)) = 2
  /\ insights[1].direction = "increased"

\* ------------------------------------------------------ claims on the App
\* a file that decodes and has a server row or a total row
HasUsableRow(f) ==
  /\ f.readable
  /\ \E row \in Range(f.rows) :
       \/ ServerRowLike(row)
       \/ TotalLike(StringOrEmpty(row.SERVER), StringOrEmpty(row.DATE))

\* a batch a generation fails on: no file, or no file with usable data
BatchFails(files) == files = <<>> \/ \A f \in Range(files) : ~HasUsableRow(f)

\* the generation under way fails: no files uploaded, a period without files,
\* or a batch without usable data
GenerationFails ==
  IF mode = "single" THEN BatchFails(rawFiles)
  ELSE \E k \in 1..Len(periods) : BatchFails(periods[k].files)

\* C12: a generation that fails leaves the processing step for the upload
\* step only, with an error message, and never for the report step
C12_FailureReturnsToUpload ==
  [][(step = "processing" /\ GenerationFails)
       => \/ step' = "processing"
          \/ /\ step' = "upload"
             /\ error' # <<>>
             /\ error'[1] # ""]_vars

\* C12 witness: back in the upload step with the message, after a comparison
\* in which one period had usable data and another had none
C12_Witness ==
  /\ step = "upload"
  /\ mode = "compare"
  /\ error = <<NoDataMessage>>
  /\ \E k \in 1..Len(periods) : BatchFails(periods[k].files)
  /\ \E k \in 1..Len(periods) : ~BatchFails(periods[k].files)
  /\ \A k \in 1..Len(periods) : periods[k].files # <<>> /\ periods[k].stats = <<>>

\* -------------------------------------------- more claims on the aggregate
\* the trimmed identifiers of the records, the empty one left out
TrimmedIds(records) == {trim(r.serverIp) : r \in Range(records)} \ {<<>>}

\* C21: serverBreakdown has exactly one row for each distinct trimmed server
\* identifier of the records, none for an identifier empty after trimming, and
\* the row of an identifier averages the records of all its spellings
C21_OneRowPerServer ==
  stats # <<>> =>
    LET all == AllRecords(processedFiles)
        sb  == stats[1].serverBreakdown
    IN  /\ {sb[k].serverIp : k \in 1..Len(sb)} = TrimmedIds(all)
        /\ Len(sb) = Cardinality(TrimmedIds(all))
        /\ \A k \in 1..Len(sb) :
             /\ sb[k].serverIp # <<>>
             /\ trim(sb[k].serverIp) = sb[k].serverIp
             /\ \A f \in {"idle", "busy", "fault"} :
                  NearestHalfUp(sb[k][f], SumFor(all, sb[k].serverIp, f),
                                Len(processedFiles))

\* C21 witness: records spelled "a" and " a" with counts, and one row for them
C21_Witness ==
  /\ stats # <<>>
  /\ \E r \in Range(AllRecords(processedFiles)) :
       r.serverIp = sA /\ ~IsZeroRecord(r)
  /\ \E r \in Range(AllRecords(processedFiles)) :
       r.serverIp = sSpaceA /\ ~IsZeroRecord(r)
  /\ Cardinality({k \in 1..Len(stats[1].serverBreakdown) :
                    stats[1].serverBreakdown[k].serverIp = sA}) = 1

\* the permutations of 1..n
Perms(n) ==
  {p \in [1..n -> 1..n] : \A a \in 1..n : \A b \in 1..n : a # b => p[a] # p[b]}

Permuted(seq, p) == [k \in 1..Len(seq) |-> seq[p[k]]]

\* the file sequences that have the records of each file in some other order
RECURSIVE RecordsRearranged(_)
RecordsRearranged(files) ==
  IF files = <<>> THEN {<<>>}
  ELSE {<<[Head(files) EXCEPT !.records = Permuted(@, q)]>> \o rest :
          q \in Perms(Len(Head(files).records)),
          rest \in RecordsRearranged(Tail(files))}

\* C22: calculateAggregates gives the stats it gave for every permutation of
\* the files and every permutation of the records inside each file
C22_PermutationInvariant ==
  stats # <<>> =>
    \A files \in RecordsRearranged(processedFiles) :
      \A p \in Perms(Len(files)) :
        calculateAggregates(Permuted(files, p)) = stats[1]

\* the files with the total field of every record set to t
WithTotal(files, t) ==
  [k \in 1..Len(files) |->
     [files[k] EXCEPT !.records =
        [j \in 1..Len(@) |-> [@[j] EXCEPT !.total = t]]]]

\* C23: the stats do not depend on the total field of the records: a batch
\* that differs in these fields only gives the same stats
C23_TotalColumnIgnored ==
  stats # <<>> =>
    \A t \in {0, 7} : calculateAggregates(WithTotal(processedFiles, t)) = stats[1]

\* C23 witness: stats made from a record whose total field is not the sum of
\* its idle, busy and fault
C23_Witness ==
  /\ stats # <<>>
  /\ Len(stats[1].serverBreakdown) >= 1
  /\ \E r \in Range(AllRecords(processedFiles)) :
       /\ trim(r.serverIp) # <<>>
       /\ r.total # r.idle + r.busy + r.fault
       /\ r.total # 0

\* the files of rawFiles that decode
DecodedCount == Cardinality({k \in 1..Len(rawFiles) : rawFiles[k].readable})

\* C28: the divisor of the averages is the number of files that decoded: a
\* decoded file without server rows counts, a file skipped for a decode
\* failure does not, and for no file at all the divisor is 1 and the
\* aggregate is all zeros
C28_DivisorIsDecodedFiles ==
  /\ fileCountOf(<<>>) = 1
  /\ LET empty == calculateAggregates(<<>>) IN
       /\ empty.serverBreakdown = <<>>
       /\ empty.totalCalls = 0
       /\ empty.utilizationIdle.num = 0 /\ empty.utilizationIdle.den # 0
  /\ stats # <<>> =>
       LET all == AllRecords(processedFiles)
           sb  == stats[1].serverBreakdown
       IN  /\ Len(processedFiles) = DecodedCount
           /\ \A k \in 1..Len(sb) : \A f \in {"idle", "busy", "fault"} :
                NearestHalfUp(sb[k][f], SumFor(all, sb[k].serverIp, f), DecodedCount)

\* C28 witness: two decoded files, one of them without server rows, and an
\* average that the file without server rows has diluted
C28_Witness ==
  /\ stats # <<>>
  /\ DecodedCount = 2
  /\ \E pf \in Range(processedFiles) : pf.records = <<>>
  /\ \E k \in 1..Len(stats[1].serverBreakdown) :
       LET r == stats[1].serverBreakdown[k] IN
         r.idle # SumFor(AllRecords(processedFiles), r.serverIp, "idle")

\* the files with the fileTotalRow of every file set to t (<<>> for none)
WithFileTotalRow(files, t) ==
  [k \in 1..Len(files) |-> [files[k] EXCEPT !.fileTotalRow = t]]

\* C29: the stats do not depend on the fileTotalRow of any file, and a batch
\* of total rows only passes the usable-data test and gives an empty
\* serverBreakdown with totals and utilizations of 0
C29_FileTotalRowIgnored ==
  /\ stats # <<>> =>
       /\ calculateAggregates(WithFileTotalRow(processedFiles, <<>>)) = stats[1]
       /\ \A pf \in Range(processedFiles) : \A t \in Range(pf.records) :
            calculateAggregates(WithFileTotalRow(processedFiles, <<t>>)) = stats[1]
  /\ (/\ Finished
      /\ \E pf \in Range(processedFiles) : pf.fileTotalRow # <<>>
      /\ \A pf \in Range(processedFiles) : pf.records = <<>>)
       => /\ step = "report"
          /\ error = <<>>
          /\ stats # <<>>
          /\ stats[1].serverBreakdown = <<>>
          /\ stats[1].totalIdle = 0 /\ stats[1].totalBusy = 0
          /\ stats[1].totalFault = 0 /\ stats[1].totalCalls = 0
          /\ stats[1].utilizationIdle.num = 0
          /\ stats[1].utilizationBusy.num = 0
          /\ stats[1].utilizationFault.num = 0

\* C29 witness: a report made from files that have total rows with counts and
\* no server row
C29_Witness ==
  /\ step = "report"
  /\ stats # <<>>
  /\ processedFiles # <<>>
  /\ \A pf \in Range(processedFiles) : pf.records = <<>>
  /\ \E pf \in Range(processedFiles) :
       pf.fileTotalRow # <<>> /\ pf.fileTotalRow[1].total > 0

\* ----------------------------------------------------- more claims on the App
\* C24: in the report step error is null, single mode has stats and compare
\* mode has stats for every period
C24_ReportHasStats ==
  step = "report" =>
    /\ error = <<>>
    /\ mode = "single" => stats # <<>>
    /\ mode = "compare" => \A k \in 1..Len(periods) : periods[k].stats # <<>>

\* C24 witness: the report of a comparison, every period with the stats of its
\* own files
C24_Witness ==
  /\ step = "report"
  /\ mode = "compare"
  /\ error = <<>>
  /\ \A k \in 1..Len(periods) :
       /\ periods[k].files # <<>>
       /\ periods[k].stats = processFiles(periods[k].files).stats
       /\ periods[k].stats # <<>>

\* a comparison in which the aggregation of some period fails
ComparisonFails ==
  /\ mode = "compare"
  /\ \E k \in 1..Len(periods) : processFiles(periods[k].files).state = "rejected"

\* C25: while a comparison in which some period fails is processing, periods
\* is not changed, whichever promises have settled, and the step that leaves
\* the processing step goes to the upload step
C25_AllOrNothing ==
  [][(step = "processing" /\ ComparisonFails)
       => /\ periods' = periods
          /\ step' \in {"processing", "upload"}]_vars

\* C25 witness: the promise of one period has fulfilled with stats, that of
\* another has rejected, and no period has stats
C25_Witness ==
  /\ step = "processing"
  /\ mode = "compare"
  /\ \E id \in DOMAIN settled :
       settled[id].state = "fulfilled" /\ settled[id].stats # <<>>
  /\ \E id \in DOMAIN settled : settled[id].state = "rejected"
  /\ \A k \in 1..Len(periods) : periods[k].stats = <<>>

\* the files the App holds for the FileUploader of a key
AppFilesOf(key) ==
  IF key = "single" THEN rawFiles
  ELSE periods[IndexOfPeriod(periods, key)].files

\* C27: in the upload step every FileUploader shows the files the App holds
\* for it
C27_UploaderShowsAppFiles ==
  step = "upload" =>
    \A key \in DOMAIN selectedFiles : selectedFiles[key] = AppFilesOf(key)

\* C30: periods has at least two entries, their ids are pairwise distinct, and
\* a pairwise comparison has exactly two
C30_PeriodsShape ==
  /\ Len(periods) >= 2
  /\ \A a \in 1..Len(periods) : \A b \in 1..Len(periods) :
       a # b => periods[a].id # periods[b].id
  /\ comparisonType = "pairwise" => Len(periods) = 2

\* C30 witness: a pairwise comparison of the two initial periods, come back to
\* from a trend that had an added period and files
C30_Witness ==
  /\ comparisonType = "pairwise"
  /\ mode = "compare"
  /\ periods = InitialPeriods
  /\ DOMAIN selectedFiles = {"1", "2"}
  /\ \E key \in DOMAIN selectedFiles : selectedFiles[key] # <<>>

\* C26: the processing step always leads to the report step or the upload
\* step, and in the processing step no generation can be started
C26_ProcessingEnds ==
  /\ (step = "processing") ~> (step \in {"report", "upload"})
  /\ [](step = "processing"
          => ~(ENABLED handleGenerateReport)
             /\ ~(ENABLED handleGenerateReportCompare))

\* C26 witness: a comparison in the processing step, one promise settled and
\* another still pending
C26_Witness ==
  /\ step = "processing"
  /\ mode = "compare"
  /\ \E id \in DOMAIN settled : settled[id].state = "pending"
  /\ \E id \in DOMAIN settled : settled[id].state # "pending"

====
